---- MODULE Spec2Model ----
(***************************************************************************)
(* Model of the event-recovery validation engine:                          *)
(*   validator.ProcessEventsInDocument  (bounded worker pool + retry)      *)
(*   db.ValidateAndCheckEvents          (escalation to the MySQL store)    *)
(*   report.CreateMissingDataReport / CreateEnhancedMissingDataReport      *)
(* Go strings that take part in string operations are sequences of         *)
(* one-character strings; a nil error / nil pointer is the empty tuple and *)
(* a non-nil one is a one-element tuple holding the value.                  *)
(***************************************************************************)
EXTENDS Integers, Sequences, FiniteSets, TLC

\* ------------------------------------------------------------------ bounds
MaxBatch == 2

MaxConcurrentBound == 2

MaxOutcomes == 2

\* longest generated string handed to the substring helper
MaxStrLen == 3

MaxDocuments == 2

MaxRunEvents == 3

\* ------------------------------------------------------- program constants
\* validator.go:39  for attempt := 1; attempt <= 2; attempt++
AttemptLimitMut == 3

AttemptLimit == 2

\* config.go:43  query-timeout default
QueryTimeout == 15

\* ------------------------------------------------------------------ strings
S_deadline_exceeded == <<"d", "e", "a", "d", "l", "i", "n", "e", " ", "e", "x", "c", "e", "e", "d", "e", "d">>

S_timed_out == <<"t", "i", "m", "e", "d", " ", "o", "u", "t">>

S_timeout == <<"t", "i", "m", "e", "o", "u", "t">>

S_empty_entity_type == <<"e", "m", "p", "t", "y", " ", "e", "n", "t", "i", "t", "y", "_", "t", "y", "p", "e">>

S_EOF == <<"E", "O", "F">>

S_bad_auth == <<"b", "a", "d", " ", "a", "u", "t", "h">>

S_doctalk == <<"d", "o", "c", "t", "a", "l", "k">>

S_OPEN == <<"O", "P", "E", "N">>

S_s1 == <<"s", "1">>

\* a nil error and a non-nil error carrying message m; err.Error()
Nil == << >>

Err(m) == << m >>

ErrorMsg(e) == e[1]

\* Go slice expression s[:n] (callers keep 0 <= n <= len(s))
Prefix(s, n) == SubSeq(s, 1, n)

\* reference substring test (strings.Contains)
StringsContains(s, substr) ==
    \E i \in 1..(Len(s) - Len(substr) + 1) : SubSeq(s, i, i + Len(substr) - 1) = substr

\* validator.go:147-149
contains(s, substr) ==
    Len(s) >= Len(substr) /\ Prefix(s, Len(s) - Len(substr) + 1) # substr

\* validator.go:138-144
isTimeoutError(err) ==
    LET errMsg == ErrorMsg(err)
    IN  errMsg # << >> /\ ( contains(errMsg, S_deadline_exceeded)
                            \/ contains(errMsg, S_timed_out)
                            \/ contains(errMsg, S_timeout) )

\* ------------------------------------------------------------- data model
\* the identifier of the i-th event of a batch
EventIDs == << <<"e", "1">>, <<"e", "2">>, <<"e", "3">>, <<"e", "4">> >>

EntityTypes == { << >>, S_doctalk }

\* models.Event (the fields the engine reads)
MkEvent(id, etype, name, session) ==
    [ID |-> id, EntityType |-> etype, EventName |-> name, SessionID |-> session]

ZeroEvent == MkEvent(<< >>, << >>, << >>, << >>)

\* zero value of models.Result (validator.go:36  var result models.Result)
ZeroResult ==
    [EventID |-> << >>, EntityType |-> << >>, FoundInDest |-> FALSE,
     CollectionName |-> << >>, Error |-> Nil, Event |-> ZeroEvent, OffsetID |-> 0]

\* what collection.CountDocuments can return: (count, nil) or (0, err)
ProbeErrors == { S_timed_out, S_EOF, S_bad_auth }

ProbeReturns ==
    { [count |-> c, err |-> Nil] : c \in {0, 1} }
    \cup { [count |-> 0, err |-> Err(m)] : m \in ProbeErrors }

\* validator.go:106-110  the entity_type check that precedes the probe
NeedsProbe(event) == event.EntityType # << >>

\* validator.go:96-135; probe is the return of CountDocuments and is read
\* only when the entity_type check lets the call happen
validateEventFoundFirst(event, probe) ==
    LET result == [EventID |-> event.ID, EntityType |-> event.EntityType,
                   CollectionName |-> event.EntityType, FoundInDest |-> TRUE,
                   Error |-> Nil, Event |-> event, OffsetID |-> 0]
    IN  IF ~NeedsProbe(event)
        THEN [result EXCEPT !.Error = Err(S_empty_entity_type)]
        ELSE IF probe.err # Nil
             THEN [result EXCEPT !.Error = probe.err]
             ELSE [result EXCEPT !.FoundInDest = probe.count > 0]

validateEventWrapErr(event, probe) ==
    LET result == [EventID |-> event.ID, EntityType |-> event.EntityType,
                   CollectionName |-> event.EntityType, FoundInDest |-> FALSE,
                   Error |-> Nil, Event |-> event, OffsetID |-> 0]
    IN  IF ~NeedsProbe(event)
        THEN [result EXCEPT !.Error = Err(S_empty_entity_type)]
        ELSE IF probe.err # Nil
             THEN [result EXCEPT !.Error = Err(<<"e", "r", "r", ":", " ">> \o ErrorMsg(probe.err))]
             ELSE [result EXCEPT !.FoundInDest = probe.count > 0]

validateEvent(event, probe) ==
    LET result == [EventID |-> event.ID, EntityType |-> event.EntityType,
                   CollectionName |-> event.EntityType, FoundInDest |-> FALSE,
                   Error |-> Nil, Event |-> event, OffsetID |-> 0]
    IN  IF ~NeedsProbe(event)
        THEN [result EXCEPT !.Error = Err(S_empty_entity_type)]
        ELSE IF probe.err # Nil
             THEN [result EXCEPT !.Error = probe.err]
             ELSE [result EXCEPT !.FoundInDest = probe.count > 0]

\* ------------------------------------------- ProcessEventsInDocument state
VARIABLES
    events,         \* the batch (validator.go:18)
    maxConcurrent,  \* semaphore capacity
    documentIndex,  \* batch tag
    next,           \* index of the next event the dispatch loop takes
    semaphore,      \* number of tokens in the semaphore channel
    wg,             \* sync.WaitGroup counter
    pc,             \* position of each unit of work
    attempt,        \* loop variable of each unit of work
    result,         \* local `result` of each unit of work
    probeLog,       \* instrumented probe: per unit, the calls made so far
    sleeps,         \* per unit, the backoff sleeps (seconds) taken so far
    resultsMutex,   \* 0 = unlocked, w = held by unit w
    results,        \* the shared result slice
    mainpc          \* "dispatch" | "returned"

dvars == << events, maxConcurrent, documentIndex, next, semaphore, wg, pc,
            attempt, result, probeLog, sleeps, resultsMutex, results,
            mainpc >>

Workers == 1..Len(events)

\* main.go:79, part_002:164  the batch tag is docIndex+1
DocumentIndexes == {1, 2}

Batches ==
    UNION { [1..n -> EntityTypes] : n \in 0..MaxBatch }

BatchOf(types) ==
    [i \in 1..Len(types) |-> MkEvent(EventIDs[i], types[i], S_OPEN, S_s1)]

\* batches whose first event may lack its identifier (models.go:12): nothing
\* on the way to ProcessEventsInDocument rejects such an event
BatchesWithEmptyID ==
    { [i \in 1..n |-> MkEvent(IF i = 1 THEN id ELSE EventIDs[i],
                               IF i = 1 THEN t ELSE S_doctalk, S_OPEN, S_s1)] :
          n \in 1..MaxBatch, id \in {<< >>, EventIDs[1]}, t \in EntityTypes }

\* validator.go:18-24  the state at the call, for the batches of set B
DispatchStart(B) ==
    /\ events \in B
    /\ maxConcurrent \in 0..MaxConcurrentBound
    /\ documentIndex \in DocumentIndexes
    /\ next = 1
    /\ semaphore = 0
    /\ wg = 0
    /\ pc = [w \in Workers |-> "idle"]
    /\ attempt = [w \in Workers |-> 0]
    /\ result = [w \in Workers |-> ZeroResult]
    /\ probeLog = [w \in Workers |-> << >>]
    /\ sleeps = [w \in Workers |-> << >>]
    /\ resultsMutex = 0
    /\ results = << >>
    /\ mainpc = "dispatch"

InitDispatch == DispatchStart({ BatchOf(types) : types \in Batches })

\* validator.go:23,29  a send on the buffered channel proceeds iff it has room
SemaphoreHasRoomMut(held, capacity) == held <= capacity

SemaphoreHasRoom(held, capacity) == held < capacity

\* validator.go:48  leave the retry loop
StopRetrying(res) == res.Error = Nil \/ ~isTimeoutError(res.Error)

\* validator.go:59
AppendResultDropErrors(rs, r) == IF r.Error # Nil THEN rs ELSE Append(rs, r)

AppendResult(rs, r) == Append(rs, r)

\* validator.go:27-31  one iteration of the dispatch loop
DispatchBeforeLoopTest ==
    /\ mainpc = "dispatch"
    /\ next <= Len(events) \/ (next = 1 /\ wg = 0)
    /\ SemaphoreHasRoom(semaphore, maxConcurrent)
    /\ wg' = wg + 1
    /\ semaphore' = semaphore + 1
    /\ pc' = IF next <= Len(events) THEN [pc EXCEPT ![next] = "attempt"] ELSE pc
    /\ attempt' = IF next <= Len(events) THEN [attempt EXCEPT ![next] = 1] ELSE attempt
    /\ next' = next + 1
    /\ UNCHANGED << events, maxConcurrent, documentIndex, result, probeLog,
                    sleeps, resultsMutex, results, mainpc >>

Dispatch ==
    /\ mainpc = "dispatch"
    /\ next <= Len(events)
    /\ SemaphoreHasRoom(semaphore, maxConcurrent)
    /\ wg' = wg + 1
    /\ semaphore' = semaphore + 1
    /\ pc' = [pc EXCEPT ![next] = "attempt"]
    /\ attempt' = [attempt EXCEPT ![next] = 1]
    /\ next' = next + 1
    /\ UNCHANGED << events, maxConcurrent, documentIndex, result, probeLog,
                    sleeps, resultsMutex, results, mainpc >>

\* validator.go:42-55  what follows the return of validateEvent
AfterAttemptTagOnRetry(w, res) ==
    LET tagged == IF res.Error = Nil THEN res ELSE [res EXCEPT !.OffsetID = documentIndex]
    IN  /\ result' = [result EXCEPT ![w] = tagged]
        /\ pc' = [pc EXCEPT ![w] = IF StopRetrying(tagged) THEN "lock" ELSE "sleep"]

AfterAttemptKeepFirstError(w, res) ==
    LET tagged == IF result[w].Error # Nil
                  THEN [res EXCEPT !.OffsetID = documentIndex, !.Error = result[w].Error,
                                   !.FoundInDest = FALSE]
                  ELSE [res EXCEPT !.OffsetID = documentIndex]
    IN  /\ result' = [result EXCEPT ![w] = tagged]
        /\ pc' = [pc EXCEPT ![w] = IF StopRetrying([res EXCEPT !.OffsetID = documentIndex])
                                   THEN "lock" ELSE "sleep"]

AfterAttempt(w, res) ==
    LET tagged == [res EXCEPT !.OffsetID = documentIndex]
    IN  /\ result' = [result EXCEPT ![w] = tagged]
        /\ pc' = [pc EXCEPT ![w] = IF StopRetrying(tagged) THEN "lock" ELSE "sleep"]

\* validator.go:41  attemptTimeout := timeoutSec * attempt
attemptTimeoutFlat(timeoutSec, k) == timeoutSec

attemptTimeout(timeoutSec, k) == timeoutSec * k

\* validator.go:39-42, 96-126  enter validateEvent; the probe is issued
\* unless the entity_type check returns first.  The probe's context is
\* context.WithTimeout(context.Background(), attemptTimeout) (validator.go:113):
\* its parent has no deadline, so the budget counts from the call
Attempt(w) ==
    /\ pc[w] = "attempt"
    /\ IF NeedsProbe(events[w])
       THEN /\ pc' = [pc EXCEPT ![w] = "probing"]
            /\ probeLog' = [probeLog EXCEPT
                   ![w] = Append(@, [timeout |-> attemptTimeout(QueryTimeout, attempt[w]),
                                     parent |-> "Background",
                                     ret |-> << >>])]
            /\ UNCHANGED result
       ELSE /\ AfterAttempt(w, validateEvent(events[w], [count |-> 0, err |-> Nil]))
            /\ UNCHANGED probeLog
    /\ UNCHANGED << events, maxConcurrent, documentIndex, next, semaphore, wg,
                    attempt, sleeps, resultsMutex, results, mainpc >>

\* validator.go:126-134, 45-50  CountDocuments returns
ProbeReturn(w) ==
    /\ pc[w] = "probing"
    /\ \E probe \in ProbeReturns :
          /\ probeLog' = [probeLog EXCEPT ![w][Len(probeLog[w])].ret = << probe >>]
          /\ AfterAttempt(w, validateEvent(events[w], probe))
    /\ UNCHANGED << events, maxConcurrent, documentIndex, next, semaphore, wg,
                    attempt, sleeps, resultsMutex, results, mainpc >>

\* validator.go:54, 39  the backoff sleep ends; attempt++ and loop test
Backoff(w) ==
    /\ pc[w] = "sleep"
    /\ sleeps' = [sleeps EXCEPT ![w] = Append(@, attempt[w])]
    /\ attempt' = [attempt EXCEPT ![w] = @ + 1]
    /\ pc' = [pc EXCEPT ![w] = IF attempt[w] + 1 <= AttemptLimit THEN "attempt" ELSE "lock"]
    /\ UNCHANGED << events, maxConcurrent, documentIndex, next, semaphore, wg,
                    result, probeLog, resultsMutex, results, mainpc >>

\* validator.go:58
LockInInputOrder(w) ==
    /\ pc[w] = "lock"
    /\ resultsMutex = 0
    /\ Len(results) = w - 1
    /\ resultsMutex' = w
    /\ pc' = [pc EXCEPT ![w] = "append"]
    /\ UNCHANGED << events, maxConcurrent, documentIndex, next, semaphore, wg,
                    attempt, result, probeLog, sleeps, results, mainpc >>

LockWithoutWaiting(w) ==
    /\ pc[w] = "lock"
    /\ resultsMutex' = w
    /\ pc' = [pc EXCEPT ![w] = "append"]
    /\ UNCHANGED << events, maxConcurrent, documentIndex, next, semaphore, wg,
                    attempt, result, probeLog, sleeps, results, mainpc >>

Lock(w) ==
    /\ pc[w] = "lock"
    /\ resultsMutex = 0
    /\ resultsMutex' = w
    /\ pc' = [pc EXCEPT ![w] = "append"]
    /\ UNCHANGED << events, maxConcurrent, documentIndex, next, semaphore, wg,
                    attempt, result, probeLog, sleeps, results, mainpc >>

\* validator.go:59-60
AppendUnlock(w) ==
    /\ pc[w] = "append"
    /\ results' = AppendResult(results, result[w])
    /\ resultsMutex' = 0
    /\ pc' = [pc EXCEPT ![w] = "log"]
    /\ UNCHANGED << events, maxConcurrent, documentIndex, next, semaphore, wg,
                    attempt, result, probeLog, sleeps, mainpc >>

\* validator.go:62-71, 32-33  log the outcome, then the deferred calls:
\* release the semaphore slot, wg.Done()
FinishNoRelease(w) ==
    /\ pc[w] = "log"
    /\ wg' = wg - 1
    /\ pc' = [pc EXCEPT ![w] = "done"]
    /\ UNCHANGED << events, maxConcurrent, documentIndex, next, semaphore, attempt,
                    result, probeLog, sleeps, resultsMutex, results, mainpc >>

Finish(w) ==
    /\ pc[w] = "log"
    /\ semaphore' = semaphore - 1
    /\ wg' = wg - 1
    /\ pc' = [pc EXCEPT ![w] = "done"]
    /\ UNCHANGED << events, maxConcurrent, documentIndex, next, attempt, result,
                    probeLog, sleeps, resultsMutex, results, mainpc >>

\* validator.go:77  wg.Wait() returns once the counter is zero
WaitPassesAtOnce(counter) == TRUE

WaitPasses(counter) == counter = 0

\* validator.go:77-92  wg.Wait() passes, the summary is counted, return
Return ==
    /\ mainpc = "dispatch"
    /\ next > Len(events)
    /\ WaitPasses(wg)
    /\ mainpc' = "returned"
    /\ UNCHANGED << events, maxConcurrent, documentIndex, next, semaphore, wg, pc,
                    attempt, result, probeLog, sleeps, resultsMutex, results >>

\* ------------------------------------------------ ValidateAndCheckEvents
S_no_mapping_found_for_event == <<"n", "o", " ", "m", "a", "p", "p", "i", "n", "g", " ", "f", "o", "u", "n", "d", " ", "f", "o", "r", " ", "e", "v", "e", "n", "t", ":", " ">>

S_MySQL_query_failed == <<"M", "y", "S", "Q", "L", " ", "q", "u", "e", "r", "y", " ", "f", "a", "i", "l", "e", "d", ":", " ">>

S_no_product_type_id_mapping == <<"n", "o", " ", "p", "r", "o", "d", "u", "c", "t", "_", "t", "y", "p", "e", "_", "i", "d", " ", "m", "a", "p", "p", "i", "n", "g", " ", "f", "o", "r", " ", "c", "o", "l", "l", "e", "c", "t", "i", "o", "n", ":", " ">>

S_error_querying_MySQL == <<"e", "r", "r", "o", "r", " ", "q", "u", "e", "r", "y", "i", "n", "g", " ", "M", "y", "S", "Q", "L", ":", " ">>

S_SKIP == <<"S", "K", "I", "P">>

S_HOME == <<"H", "O", "M", "E">>

S_quiz == <<"q", "u", "i", "z">>

S_other == <<"o", "t", "h", "e", "r">>

\* models.go:74-76  Result.IsSuccess
IsSuccessErrOnly(r) == r.Error = Nil

IsSuccess(r) == r.Error = Nil /\ r.FoundInDest

\* models.MySQLEvent as scanned from a row (zero value when no row was read)
ZeroMySQLEvent == [ID |-> 0, EventName |-> << >>, ProductType |-> 0, SessionID |-> << >>]

RowMySQLEvent(name, productType, session) ==
    [ID |-> 1, EventName |-> name, ProductType |-> productType, SessionID |-> session]

\* models.MySQLEventResult; Error and MySQLEvent are nil (<< >>) or << value >>
MkMySQLResult(id, name, coll, session) ==
    [EventID |-> id, EventName |-> name, CollectionName |-> coll, SessionID |-> session,
     Found |-> FALSE, Error |-> Nil, MySQLEvent |-> << >>]

\* models.CombinedResult; MySQLResult is nil (<< >>) or << result >>
MkCombinedErrorOnPrimary(mongo, mysql) ==
    [MongoResult |-> IF mysql # << >> /\ mysql[1].Error # Nil
                     THEN [mongo EXCEPT !.Error = mysql[1].Error, !.FoundInDest = FALSE]
                     ELSE mongo,
     MySQLResult |-> mysql]

MkCombined(mongo, mysql) == [MongoResult |-> mongo, MySQLResult |-> mysql]

\* the errors a MySQL query can fail with
SqlErrors == { S_timed_out, S_bad_auth }

\* QueryRow(COUNT(*)).Scan(&count): (count, nil) or (0, err)
CountReturns ==
    { [count |-> c, err |-> Nil] : c \in {0, 1} }
    \cup { [count |-> 0, err |-> Err(m)] : m \in SqlErrors }

\* QueryRow(SELECT ... LIMIT 1).Scan(...): a row, sql.ErrNoRows or another error
RowReturns ==
    { [row |-> TRUE, noRows |-> FALSE, err |-> Nil], [row |-> FALSE, noRows |-> TRUE, err |-> Nil] }
    \cup { [row |-> FALSE, noRows |-> FALSE, err |-> Err(m)] : m \in SqlErrors }

\* mysql.go:460-468  EventMapping (the fields ValidateAndCheckEvents reads)
MkMapping(old, new, productType) ==
    [OldEventName |-> old, NewEventName |-> new, ProductType |-> productType]

\* the rows of the mapping CSV file
CsvTables == { << >>, << MkMapping(S_SKIP, S_OPEN, 36) >> }

\* mysql.go:577-583  the first mapping whose NewEventName is the event's name
FindMappingByOldName(mappings, name) ==
    LET hits == { i \in 1..Len(mappings) : mappings[i].OldEventName = name }
    IN  IF hits = {} THEN << >>
        ELSE << mappings[CHOOSE i \in hits : \A j \in hits : i <= j] >>

FindMapping(mappings, name) ==
    LET hits == { i \in 1..Len(mappings) : mappings[i].NewEventName = name }
    IN  IF hits = {} THEN << >>
        ELSE << mappings[CHOOSE i \in hits : \A j \in hits : i <= j] >>

\* mysql.go:556-632 after LoadEventMappings; mappings is the eventMappings
\* table the call reads, countRet and detailsRet what the two queries return.
\* Yields the CombinedResult and the queries issued on mysqlDB.
ValidateAndCheckEvents(event, mongo, mappings, countRet, detailsRet) ==
    LET placeholder == [EventID |-> event.ID, EventName |-> event.EventName,
                        CollectionName |-> << >>, SessionID |-> event.SessionID,
                        Found |-> FALSE, Error |-> Nil, MySQLEvent |-> << >>]
        mapping == FindMapping(mappings, event.EventName)
    IN  IF ~IsSuccess(mongo)
        THEN [combined |-> MkCombined(mongo, << placeholder >>), queries |-> << >>]
        ELSE IF mapping = << >>
        THEN [combined |-> MkCombined(mongo,
                  << [placeholder EXCEPT
                        !.Error = Err(S_no_mapping_found_for_event \o event.EventName)] >>),
              queries |-> << >>]
        ELSE LET countQuery == [kind |-> "count", eventName |-> mapping[1].OldEventName,
                                session |-> event.SessionID,
                                productType |-> mapping[1].ProductType]
                 detailsQuery == [kind |-> "details", eventName |-> << >>,
                                  session |-> event.SessionID, productType |-> 0]
             IN  IF countRet.err # Nil
                 THEN [combined |-> MkCombined(mongo,
                           << [placeholder EXCEPT
                                 !.Error = Err(S_MySQL_query_failed \o ErrorMsg(countRet.err))] >>),
                       queries |-> << countQuery >>]
                 ELSE IF countRet.count > 0
                 THEN [combined |-> MkCombined(mongo, << [placeholder EXCEPT !.Found = TRUE] >>),
                       queries |-> << countQuery >>]
                 ELSE [combined |-> MkCombined(mongo,
                           << [placeholder EXCEPT
                                 !.MySQLEvent =
                                    << IF detailsRet.row
                                       THEN RowMySQLEvent(event.EventName, mapping[1].ProductType,
                                                          event.SessionID)
                                       ELSE ZeroMySQLEvent >>] >>),
                       queries |-> << countQuery, detailsQuery >>]

\* Go maps as sets of key/value pairs: comma-ok lookup and value
MapHas(m, k) == \E e \in m : e.key = k

MapGet(m, k) == (CHOOSE e \in m : e.key = k).val

\* mysql.go:56-63  DefaultEventCollectionMap
DefaultEventCollectionMap == { [key |-> S_other, val |-> 0], [key |-> S_doctalk, val |-> 36] }

CollectionMaps == { DefaultEventCollectionMap, { [key |-> S_other, val |-> 0] } }

\* event name -> screen names, as LoadEventNameMapFromCSV can build it
EventNameMaps ==
    { {}, { [key |-> S_OPEN, val |-> << S_HOME >>] }, { [key |-> S_OPEN, val |-> << >>] } }

\* len(eventNameMap[name]) of a possibly absent key
ScreenCount(eventNameMap, name) ==
    IF MapHas(eventNameMap, name) THEN Len(MapGet(eventNameMap, name)) ELSE 0

\* mysql.go:76-139  CheckEventInMySQL: the result, the error and the queries
CheckEventInMySQL(event, collectionMap, eventNameMap, rowRet) ==
    LET res == MkMySQLResult(event.ID, event.EventName, event.EntityType, event.SessionID)
    IN  IF ScreenCount(eventNameMap, event.EventName) = 0
        THEN [result |-> res, err |-> Nil, queries |-> << >>]
        ELSE IF ~MapHas(collectionMap, event.EntityType)
        THEN [result |-> res,
              err |-> Err(S_no_product_type_id_mapping \o event.EntityType),
              queries |-> << >>]
        ELSE LET rowQuery == [kind |-> "row", eventName |-> event.EventName,
                              session |-> event.SessionID,
                              productType |-> MapGet(collectionMap, event.EntityType)]
             IN  IF rowRet.noRows
                 THEN [result |-> res, err |-> Nil, queries |-> << rowQuery >>]
                 ELSE IF rowRet.err # Nil
                 THEN [result |-> res,
                       err |-> Err(S_error_querying_MySQL \o ErrorMsg(rowRet.err)),
                       queries |-> << rowQuery >>]
                 ELSE [result |-> [res EXCEPT
                                     !.Found = TRUE,
                                     !.MySQLEvent =
                                        << RowMySQLEvent(event.EventName,
                                               MapGet(collectionMap, event.EntityType),
                                               event.SessionID) >>],
                       err |-> Nil, queries |-> << rowQuery >>]

\* mysql.go:154-158
shouldCheckMySQL(eventNameMap, name) ==
    MapHas(eventNameMap, name) /\ Len(MapGet(eventNameMap, name)) > 0

\* mysql.go:142-186  the map-based ValidateAndCheckEvents
ValidateAndCheckEventsMaps(event, mongo, collectionMap, eventNameMap, rowRet) ==
    IF ~shouldCheckMySQL(eventNameMap, event.EventName)
    THEN [combined |-> MkCombined(mongo, << >>), queries |-> << >>]
    ELSE LET chk == CheckEventInMySQL(event, collectionMap, eventNameMap, rowRet)
             mysqlResult ==
                 IF chk.err # Nil
                 THEN [MkMySQLResult(event.ID, event.EventName, event.EntityType,
                                     event.SessionID) EXCEPT !.Error = chk.err]
                 ELSE chk.result
         IN  [combined |-> MkCombined(mongo, << mysqlResult >>), queries |-> chk.queries]

VARIABLES
    escVersion,     \* "csv": mysql.go:556-632, "maps": mysql.go:142-186
    csvRows,        \* the rows of the mapping CSV file (csv version)
    collectionMap,  \* maps version: collection -> product_type_id
    eventNameMap,   \* maps version: event name -> screen names
    eventMappings,  \* mysql.go:470  package variable
    escEvent,       \* the event of the last call
    mongoResult,    \* the primary outcome passed to the last call
    combined,       \* << CombinedResult >> returned by the last call, << >> before
    queries         \* the queries the last call issued on mysqlDB

evars == << escVersion, csvRows, collectionMap, eventNameMap, eventMappings,
            escEvent, mongoResult, combined, queries >>


\* the events handed to the escalation
EscEvents ==
    { MkEvent(EventIDs[1], t, n, S_s1) : t \in {<< >>, S_doctalk, S_quiz}, n \in {S_OPEN, S_SKIP} }

\* no escalation has run: package variables at their zero values
EscIdle ==
    /\ escVersion = "none"
    /\ csvRows = << >>
    /\ collectionMap = {}
    /\ eventNameMap = {}
    /\ eventMappings = << >>
    /\ escEvent = ZeroEvent
    /\ mongoResult = ZeroResult
    /\ combined = << >>
    /\ queries = << >>

InitEsc ==
    /\ escVersion \in {"csv", "maps"}
    /\ IF escVersion = "csv"
       THEN csvRows \in CsvTables /\ collectionMap = {} /\ eventNameMap = {}
       ELSE csvRows = << >> /\ collectionMap \in CollectionMaps /\ eventNameMap \in EventNameMaps
    /\ eventMappings = << >>
    /\ escEvent = ZeroEvent
    /\ mongoResult = ZeroResult
    /\ combined = << >>
    /\ queries = << >>

\* mysql.go:556-632  one call; LoadEventMappings (472-535) rewrites the
\* package table when the file can be read and leaves it alone otherwise
CallCsv ==
    /\ escVersion = "csv"
    /\ \E event \in EscEvents, probe \in ProbeReturns, loadOk \in BOOLEAN,
          countRet \in CountReturns, detailsRet \in RowReturns :
          LET loaded == IF loadOk THEN csvRows ELSE eventMappings
              out == ValidateAndCheckEvents(event, validateEvent(event, probe), loaded,
                                            countRet, detailsRet)
          IN  /\ eventMappings' = loaded
              /\ escEvent' = event
              /\ mongoResult' = validateEvent(event, probe)
              /\ combined' = << out.combined >>
              /\ queries' = out.queries
    /\ UNCHANGED << escVersion, csvRows, collectionMap, eventNameMap >>

\* mysql.go:142-186  one call
CallMaps ==
    /\ escVersion = "maps"
    /\ \E event \in EscEvents, probe \in ProbeReturns, rowRet \in RowReturns :
          LET out == ValidateAndCheckEventsMaps(event, validateEvent(event, probe),
                                                collectionMap, eventNameMap, rowRet)
          IN  /\ escEvent' = event
              /\ mongoResult' = validateEvent(event, probe)
              /\ combined' = << out.combined >>
              /\ queries' = out.queries
    /\ UNCHANGED << escVersion, csvRows, collectionMap, eventNameMap, eventMappings >>

\* ------------------------------------------------------------ aggregators
S_Error_checking == <<"E", "r", "r", "o", "r", " ", "c", "h", "e", "c", "k", "i", "n", "g", " ">>

S_in == <<" ", "i", "n", " ">>

S_colon == <<":", " ">>

S_no_mapping_found == <<"n", "o", " ", "m", "a", "p", "p", "i", "n", "g", " ", "f", "o", "u", "n", "d">>

\* the keys ByCollection can get: the collection names of the outcomes
CollectionNames == { << >>, S_doctalk, S_quiz, S_doctalk \o S_in \o S_quiz }

\* models.MissingEvent built at report.go:43-51 and part_000:389-396
MkMissingEvent(r) ==
    [ID |-> r.EventID, EntityType |-> r.EntityType, EventName |-> r.Event.EventName,
     SessionID |-> r.Event.SessionID, OffsetID |-> r.OffsetID]

\* report.go:31-32  fmt.Sprintf("Error checking %s in %s: %v", ...)
ErrMsgOfErrorOnly(r) == ErrorMsg(r.Error)

ErrMsgOf(r) ==
    S_Error_checking \o r.EventID \o S_in \o r.CollectionName \o S_colon \o ErrorMsg(r.Error)

\* report.go:17-25  the report and the locals before the loop
MissingInit ==
    [ByCollection |-> [c \in CollectionNames |-> << >>], totalMissing |-> 0, errorsMap |-> {}]

\* report.go:28-56  one iteration of the loop
MissingStepNoContinue(acc, r) ==
    LET a1 == IF r.Error # Nil
              THEN [acc EXCEPT !.errorsMap = @ \cup { ErrMsgOf(r) }]
              ELSE acc
    IN  IF r.FoundInDest THEN a1
        ELSE [a1 EXCEPT !.ByCollection[r.CollectionName] = Append(@, MkMissingEvent(r)),
                        !.totalMissing = @ + 1]

MissingStepCountFound(acc, r) ==
    IF r.Error # Nil
    THEN [acc EXCEPT !.errorsMap = @ \cup { ErrMsgOf(r) }]
    ELSE [acc EXCEPT !.ByCollection[r.CollectionName] = Append(@, MkMissingEvent(r)),
                     !.totalMissing = @ + 1]

MissingStep(acc, r) ==
    IF r.Error # Nil
    THEN [acc EXCEPT !.errorsMap = @ \cup { ErrMsgOf(r) }]
    ELSE IF r.FoundInDest THEN acc
    ELSE [acc EXCEPT !.ByCollection[r.CollectionName] = Append(@, MkMissingEvent(r)),
                     !.totalMissing = @ + 1]

RECURSIVE MissingLoop(_, _)
\* report.go:28  for _, result := range results
MissingLoop(acc, rs) ==
    IF rs = << >> THEN acc ELSE MissingLoop(MissingStep(acc, Head(rs)), Tail(rs))

\* the orders in which a range over a Go map can yield the keys of set S
Orders(S) ==
    { f \in [1..Cardinality(S) -> S] : \A i, j \in 1..Cardinality(S) : f[i] = f[j] => i = j }

\* report.go:15-71  CreateMissingDataReport, given the order in which the
\* range over errorsMap yields its keys; `files` are the reports handed to
\* the writer, printedMissing/printedErrors the counts of report.go:98-99
CreateMissingDataReport(rs, order) ==
    LET acc == MissingLoop(MissingInit, rs)
    IN  [ByCollection |-> acc.ByCollection,
         TotalCount |-> acc.totalMissing,
         Errors |-> order,
         files |-> IF acc.totalMissing > 0 \/ Len(order) > 0
                   THEN {"missing_events"} ELSE {},
         printedMissing |-> acc.totalMissing,
         printedErrors |-> Len(order)]

\* part_000:373-380, 411-418  models.ErrorEvent
MkErrorEvent(id, name, etype, session, errType, msg) ==
    [ID |-> id, EventName |-> name, EntityType |-> etype, SessionID |-> session,
     ErrorType |-> errType, ErrorMsg |-> msg]

\* part_000:429-437  models.MongoToMySQLMissingEvent
MkMongoToMySQLMissingEvent(r) ==
    [ID |-> r.EventID, EventName |-> r.Event.EventName, CollectionName |-> r.CollectionName,
     SessionID |-> r.Event.SessionID, OffsetID |-> r.OffsetID]

\* part_000:337-364  the reports and hasFailures before the loop
EnhancedInit(n) ==
    [mongoEvents |-> << >>, mysqlEvents |-> << >>, errors |-> << >>,
     summary |-> [TotalEventsChecked |-> n, MongoMissingCount |-> 0,
                  MySQLMissingCount |-> 0, ErrorCount |-> 0],
     hasFailures |-> FALSE]

\* part_000:401-440  the MySQL part of one iteration
EnhancedMySQLStepMissingFirst(acc, cr) ==
    IF cr.MySQLResult = << >> THEN acc
    ELSE LET m == cr.MySQLResult[1]
         IN  IF ~m.Found
             THEN [acc EXCEPT
                     !.hasFailures = TRUE,
                     !.summary.MySQLMissingCount = @ + 1,
                     !.mysqlEvents = Append(@, MkMongoToMySQLMissingEvent(cr.MongoResult))]
             ELSE IF m.Error # Nil /\ ~StringsContains(ErrorMsg(m.Error), S_no_mapping_found)
             THEN [acc EXCEPT
                     !.hasFailures = TRUE,
                     !.summary.ErrorCount = @ + 1,
                     !.errors = Append(@, MkErrorEvent(m.EventID, m.EventName,
                                           cr.MongoResult.EntityType, m.SessionID,
                                           "mysql", ErrorMsg(m.Error)))]
             ELSE acc

EnhancedMySQLStep(acc, cr) ==
    IF cr.MySQLResult = << >> THEN acc
    ELSE LET m == cr.MySQLResult[1]
         IN  IF m.Error # Nil
             THEN IF StringsContains(ErrorMsg(m.Error), S_no_mapping_found)
                  THEN acc
                  ELSE [acc EXCEPT
                          !.hasFailures = TRUE,
                          !.summary.ErrorCount = @ + 1,
                          !.errors = Append(@, MkErrorEvent(m.EventID, m.EventName,
                                                cr.MongoResult.EntityType, m.SessionID,
                                                "mysql", ErrorMsg(m.Error)))]
             ELSE IF ~m.Found
             THEN [acc EXCEPT
                     !.hasFailures = TRUE,
                     !.summary.MySQLMissingCount = @ + 1,
                     !.mysqlEvents = Append(@, MkMongoToMySQLMissingEvent(cr.MongoResult))]
             ELSE acc

\* part_000:385-399  the not-found-in-MongoDB part of one iteration
EnhancedMongoMissing(acc, r) ==
    [acc EXCEPT !.hasFailures = TRUE,
                !.summary.MongoMissingCount = @ + 1,
                !.mongoEvents = Append(@, MkMissingEvent(r))]

\* part_000:368-383  the MongoDB-error part of one iteration
EnhancedMongoErrorNoCount(acc, r) ==
    [acc EXCEPT !.hasFailures = TRUE,
                !.errors = Append(@, MkErrorEvent(r.EventID, r.Event.EventName, r.EntityType,
                                                  r.Event.SessionID, "mongo",
                                                  ErrorMsg(r.Error)))]

EnhancedMongoError(acc, r) ==
    [acc EXCEPT !.hasFailures = TRUE,
                !.summary.ErrorCount = @ + 1,
                !.errors = Append(@, MkErrorEvent(r.EventID, r.Event.EventName, r.EntityType,
                                                  r.Event.SessionID, "mongo",
                                                  ErrorMsg(r.Error)))]

\* part_000:366-441  one iteration of the loop
EnhancedStepNoContinue(acc, cr) ==
    LET r == cr.MongoResult
        a1 == IF r.Error # Nil THEN EnhancedMongoError(acc, r) ELSE acc
    IN  IF ~r.FoundInDest THEN EnhancedMongoMissing(a1, r)
        ELSE EnhancedMySQLStep(a1, cr)

EnhancedStep(acc, cr) ==
    LET r == cr.MongoResult
    IN  IF r.Error # Nil THEN EnhancedMongoError(acc, r)
        ELSE IF ~r.FoundInDest THEN EnhancedMongoMissing(acc, r)
        ELSE EnhancedMySQLStep(acc, cr)

RECURSIVE EnhancedLoop(_, _)
\* part_000:366  for _, result := range results
EnhancedLoop(acc, crs) ==
    IF crs = << >> THEN acc ELSE EnhancedLoop(EnhancedStep(acc, Head(crs)), Tail(crs))

\* part_000:336-477  CreateEnhancedMissingDataReport; `files` are the reports
\* handed to the writer
CreateEnhancedAlwaysSummary(crs) ==
    LET acc == EnhancedLoop(EnhancedInit(Len(crs)), crs)
        mongoReport == [Events |-> acc.mongoEvents, TotalCount |-> Len(acc.mongoEvents)]
        mysqlReport == [Events |-> acc.mysqlEvents, TotalCount |-> Len(acc.mysqlEvents)]
        errorReport == [Errors |-> acc.errors, TotalCount |-> Len(acc.errors)]
    IN  [mongoReport |-> mongoReport, mysqlReport |-> mysqlReport,
         errorReport |-> errorReport, summaryReport |-> acc.summary,
         files |-> (IF mongoReport.TotalCount > 0 THEN {"mongo_missing_report"} ELSE {})
                   \cup (IF mysqlReport.TotalCount > 0 THEN {"mysql_missing_report"} ELSE {})
                   \cup (IF errorReport.TotalCount > 0 THEN {"error_report"} ELSE {})
                   \cup {"summary_report"}]

CreateEnhancedMissingDataReport(crs) ==
    LET acc == EnhancedLoop(EnhancedInit(Len(crs)), crs)
        mongoReport == [Events |-> acc.mongoEvents, TotalCount |-> Len(acc.mongoEvents)]
        mysqlReport == [Events |-> acc.mysqlEvents, TotalCount |-> Len(acc.mysqlEvents)]
        errorReport == [Errors |-> acc.errors, TotalCount |-> Len(acc.errors)]
    IN  [mongoReport |-> mongoReport, mysqlReport |-> mysqlReport,
         errorReport |-> errorReport, summaryReport |-> acc.summary,
         files |-> IF ~acc.hasFailures THEN {}
                   ELSE (IF mongoReport.TotalCount > 0 THEN {"mongo_missing_report"} ELSE {})
                        \cup (IF mysqlReport.TotalCount > 0 THEN {"mysql_missing_report"} ELSE {})
                        \cup (IF errorReport.TotalCount > 0 THEN {"error_report"} ELSE {})
                        \cup {"summary_report"}]

VARIABLES
    repMode,        \* "mongo": part_002:111-112, "mysql": part_002:108-109
    outcomes,       \* the results handed to the aggregator
    report          \* the reports built by the successive runs of the
                    \* aggregator over `outcomes`, << >> before the first

rvars == << repMode, outcomes, report >>

\* ------------------------------------------- the error-kind test, alone
VARIABLES
    ctS,            \* the string (error message) under test
    ctSub,          \* the substring looked for
    ctOut           \* << >> before a call, then << [op, val] >>: the function
                    \* called and the boolean it returned

cvars == << ctS, ctSub, ctOut >>

\* ------------------------------------------ processMongoOnly (the batches)
VARIABLES
    eventRecoveries,  \* part_002:150  the documents, each with its batch of events
    docIndex,         \* part_002:155  loop variable i, counted from 1
    allResults,       \* part_002:153  the combined result list
    runpc             \* "idle" | "loop" | "call" | "returned"

bvars == << eventRecoveries, docIndex, allResults, runpc >>

vars == << dvars, evars, rvars, cvars, bvars >>

\* processMongoOnly is not running
RunIdle ==
    /\ eventRecoveries = << >>
    /\ docIndex = 0
    /\ allResults = << >>
    /\ runpc = "idle"

\* number of events of a list of batches
RECURSIVE TotalEvents(_)
TotalEvents(docs) ==
    IF docs = << >> THEN 0 ELSE Len(docs[1]) + TotalEvents(Tail(docs))

\* the batches of the documents: none, one or two events to probe
RunBatches == { BatchOf([i \in 1..n |-> S_doctalk]) : n \in {0, 1, 2} }

\* the document lists handed to processMongoOnly
RecoveryLists ==
    { docs \in UNION { [1..n -> RunBatches] : n \in 0..MaxDocuments } :
          TotalEvents(docs) <= MaxRunEvents }

\* part_002:148-153  the state at the call of processMongoOnly; no call of
\* ProcessEventsInDocument has been made yet
InitRun ==
    /\ eventRecoveries \in RecoveryLists
    /\ docIndex = 0
    /\ allResults = << >>
    /\ runpc = "loop"
    /\ events = << >>
    /\ maxConcurrent \in {1, 2}
    /\ documentIndex = 0
    /\ next = 1
    /\ semaphore = 0
    /\ wg = 0
    /\ pc = << >>
    /\ attempt = << >>
    /\ result = << >>
    /\ probeLog = << >>
    /\ sleeps = << >>
    /\ resultsMutex = 0
    /\ results = << >>
    /\ mainpc = "idle"

\* part_002:155-165, validator.go:18-24  the next loop iteration calls
\* ProcessEventsInDocument(recovery.Events, cfg.MaxConcurrent, i+1)
ProcessNextDocumentSameTag ==
    /\ runpc = "loop"
    /\ docIndex < Len(eventRecoveries)
    /\ docIndex' = docIndex + 1
    /\ runpc' = "call"
    /\ events' = eventRecoveries[docIndex + 1]
    /\ documentIndex' = 1
    /\ next' = 1
    /\ semaphore' = 0
    /\ wg' = 0
    /\ pc' = [w \in 1..Len(eventRecoveries[docIndex + 1]) |-> "idle"]
    /\ attempt' = [w \in 1..Len(eventRecoveries[docIndex + 1]) |-> 0]
    /\ result' = [w \in 1..Len(eventRecoveries[docIndex + 1]) |-> ZeroResult]
    /\ probeLog' = [w \in 1..Len(eventRecoveries[docIndex + 1]) |-> << >>]
    /\ sleeps' = [w \in 1..Len(eventRecoveries[docIndex + 1]) |-> << >>]
    /\ resultsMutex' = 0
    /\ results' = << >>
    /\ mainpc' = "dispatch"
    /\ UNCHANGED << maxConcurrent, eventRecoveries, allResults >>

ProcessNextDocument ==
    /\ runpc = "loop"
    /\ docIndex < Len(eventRecoveries)
    /\ docIndex' = docIndex + 1
    /\ runpc' = "call"
    /\ events' = eventRecoveries[docIndex + 1]
    /\ documentIndex' = docIndex + 1
    /\ next' = 1
    /\ semaphore' = 0
    /\ wg' = 0
    /\ pc' = [w \in 1..Len(eventRecoveries[docIndex + 1]) |-> "idle"]
    /\ attempt' = [w \in 1..Len(eventRecoveries[docIndex + 1]) |-> 0]
    /\ result' = [w \in 1..Len(eventRecoveries[docIndex + 1]) |-> ZeroResult]
    /\ probeLog' = [w \in 1..Len(eventRecoveries[docIndex + 1]) |-> << >>]
    /\ sleeps' = [w \in 1..Len(eventRecoveries[docIndex + 1]) |-> << >>]
    /\ resultsMutex' = 0
    /\ results' = << >>
    /\ mainpc' = "dispatch"
    /\ UNCHANGED << maxConcurrent, eventRecoveries, allResults >>

\* part_002:159-166  the call has returned: allResults = append(allResults, results...)
AppendDocumentResults ==
    /\ runpc = "call"
    /\ mainpc = "returned"
    /\ allResults' = allResults \o results
    /\ runpc' = "loop"
    /\ UNCHANGED << dvars, eventRecoveries, docIndex >>

\* part_002:155, 169  the range loop is over: return allResults
ProcessMongoOnlyReturn ==
    /\ runpc = "loop"
    /\ docIndex = Len(eventRecoveries)
    /\ runpc' = "returned"
    /\ UNCHANGED << dvars, eventRecoveries, docIndex, allResults >>

\* the strings of at most MaxStrLen characters over a two-letter alphabet
GeneratedStrings == UNION { [1..n -> {"t", "o"}] : n \in 0..MaxStrLen }

\* error messages of the kinds the probes return
ErrorMessages ==
    { S_timed_out, S_timeout, S_deadline_exceeded, S_EOF, S_bad_auth, S_empty_entity_type,
      <<"i", "/", "o", " ">> \o S_timeout }

\* validator.go:141-143  the substrings isTimeoutError looks for
TimeoutSubstrings == { S_deadline_exceeded, S_timed_out, S_timeout }

\* neither function has been called
ClassifyIdle ==
    /\ ctS = << >>
    /\ ctSub = << >>
    /\ ctOut = << >>

InitClassifyInputs ==
    /\ ctS \in GeneratedStrings \cup ErrorMessages
    /\ ctSub \in GeneratedStrings \cup TimeoutSubstrings
    /\ ctOut = << >>

\* validator.go:147-149  contains(ctS, ctSub); with an empty substr the slice
\* bound len(s)+1 is out of range and the call panics
RunContains ==
    /\ ctOut = << >>
    /\ ctOut' = << [op |-> "contains", panic |-> ctSub = << >>,
                    val |-> IF ctSub = << >> THEN FALSE ELSE contains(ctS, ctSub)] >>
    /\ UNCHANGED << ctS, ctSub >>

\* validator.go:138-144  isTimeoutError of an error whose message is ctS
RunIsTimeoutError ==
    /\ ctOut = << >>
    /\ ctOut' = << [op |-> "isTimeoutError", panic |-> FALSE,
                    val |-> isTimeoutError(Err(ctS))] >>
    /\ UNCHANGED << ctS, ctSub >>

\* the events the outcomes are about: one without entity type, two of one
\* collection, one of another collection
RepEvents ==
    { MkEvent(EventIDs[1], << >>, S_OPEN, S_s1),
      MkEvent(EventIDs[1], S_doctalk, S_OPEN, S_s1),
      MkEvent(EventIDs[2], S_doctalk, S_OPEN, S_s1),
      MkEvent(EventIDs[2], S_quiz, S_OPEN, S_s1) }

\* the returns of CountDocuments the outcomes stem from
RepProbeReturns ==
    { p \in ProbeReturns : p.err = Nil \/ ErrorMsg(p.err) \in {S_timed_out, S_EOF} }

\* the returns of the COUNT(*) query the outcomes stem from
RepCountReturns ==
    { c \in CountReturns : c.err = Nil \/ ErrorMsg(c.err) = S_timed_out }

\* the primary outcomes of batch i: validateEvent's results, tagged with the
\* batch index (validator.go:42-45)
PrimaryOutcomes(i) ==
    { [validateEvent(ev, p) EXCEPT !.OffsetID = i] : ev \in RepEvents, p \in RepProbeReturns }

\* the combined outcomes of batch i: what ValidateAndCheckEvents returns
CombinedOutcomes(i) ==
    { ValidateAndCheckEvents(r.Event, r, t, c, d).combined :
          r \in PrimaryOutcomes(i), t \in CsvTables, c \in RepCountReturns,
          d \in { x \in RowReturns : x.row } }

\* no aggregation is running
RepIdle ==
    /\ repMode = "none"
    /\ outcomes = << >>
    /\ report = << >>

RECURSIVE OutcomeLists(_, _)
\* the result lists of n single-event batches (part_002:125-139, 155-167)
OutcomeLists(mode, n) ==
    IF n = 0 THEN { << >> }
    ELSE { Append(l, o) : l \in OutcomeLists(mode, n - 1),
                          o \in (IF mode = "mongo" THEN PrimaryOutcomes(n)
                                                   ELSE CombinedOutcomes(n)) }

InitRep ==
    /\ repMode \in {"mongo", "mysql"}
    /\ outcomes \in UNION { OutcomeLists(repMode, n) : n \in 0..MaxOutcomes }
    /\ report = << >>

\* part_002:111-112  report.CreateMissingDataReport(results)
RunCreateMissingDataReport ==
    /\ repMode = "mongo"
    /\ Len(report) < 2
    /\ \E order \in Orders(MissingLoop(MissingInit, outcomes).errorsMap) :
          report' = Append(report, CreateMissingDataReport(outcomes, order))
    /\ UNCHANGED << repMode, outcomes >>

\* part_002:108-109  report.CreateEnhancedMissingDataReport(results)
RunCreateEnhancedMissingDataReport ==
    /\ repMode = "mysql"
    /\ Len(report) < 2
    /\ report' = Append(report, CreateEnhancedMissingDataReport(outcomes))
    /\ UNCHANGED << repMode, outcomes >>

\* events whose identifier or collection name holds the words the error line
\* is built with (models.go:12-13: both are free-form strings), next to two
\* plain ones
KeyEvents ==
    { MkEvent(EventIDs[1], S_quiz, S_OPEN, S_s1),
      MkEvent(EventIDs[2], S_quiz, S_OPEN, S_s1),
      MkEvent(EventIDs[1], S_doctalk \o S_in \o S_quiz, S_OPEN, S_s1),
      MkEvent(EventIDs[1] \o S_in \o S_doctalk, S_quiz, S_OPEN, S_s1) }

\* the primary outcomes of batch i over KeyEvents (validator.go:42-45)
KeyOutcomes(i) ==
    { [validateEvent(ev, p) EXCEPT !.OffsetID = i] : ev \in KeyEvents, p \in RepProbeReturns }

RECURSIVE KeyOutcomeLists(_)
\* the result lists of n single-event batches (part_002:155-167)
KeyOutcomeLists(n) ==
    IF n = 0 THEN { << >> }
    ELSE { Append(l, o) : l \in KeyOutcomeLists(n - 1), o \in KeyOutcomes(n) }

InitKeys ==
    /\ repMode = "mongo"
    /\ outcomes \in UNION { KeyOutcomeLists(n) : n \in 0..MaxOutcomes }
    /\ report = << >>

\* ------------------------------------------------------- specifications
Init == InitDispatch /\ EscIdle /\ RepIdle /\ ClassifyIdle /\ RunIdle

Next ==
    \/ Dispatch /\ UNCHANGED << evars, rvars, cvars, bvars >>
    \/ \E w \in Workers : Attempt(w) /\ UNCHANGED << evars, rvars, cvars, bvars >>
    \/ \E w \in Workers : ProbeReturn(w) /\ UNCHANGED << evars, rvars, cvars, bvars >>
    \/ \E w \in Workers : Backoff(w) /\ UNCHANGED << evars, rvars, cvars, bvars >>
    \/ \E w \in Workers : Lock(w) /\ UNCHANGED << evars, rvars, cvars, bvars >>
    \/ \E w \in Workers : AppendUnlock(w) /\ UNCHANGED << evars, rvars, cvars, bvars >>
    \/ \E w \in Workers : Finish(w) /\ UNCHANGED << evars, rvars, cvars, bvars >>
    \/ Return /\ UNCHANGED << evars, rvars, cvars, bvars >>

Spec == Init /\ [][Next]_vars

\* no batch is being dispatched
DispatchIdle ==
    /\ events = << >>
    /\ maxConcurrent = 0
    /\ documentIndex = 0
    /\ next = 1
    /\ semaphore = 0
    /\ wg = 0
    /\ pc = << >>
    /\ attempt = << >>
    /\ result = << >>
    /\ probeLog = << >>
    /\ sleeps = << >>
    /\ resultsMutex = 0
    /\ results = << >>
    /\ mainpc = "idle"

\* ProcessEventsInDocument over batches that hold an event without identifier
InitEmptyID ==
    DispatchStart(BatchesWithEmptyID) /\ EscIdle /\ RepIdle /\ ClassifyIdle /\ RunIdle

SpecEmptyID == InitEmptyID /\ [][Next]_vars

InitEscalation == DispatchIdle /\ InitEsc /\ RepIdle /\ ClassifyIdle /\ RunIdle

NextEscalation ==
    \/ CallCsv /\ UNCHANGED << dvars, rvars, cvars, bvars >>
    \/ CallMaps /\ UNCHANGED << dvars, rvars, cvars, bvars >>

SpecEsc == InitEscalation /\ [][NextEscalation]_vars

InitReport == DispatchIdle /\ EscIdle /\ InitRep /\ ClassifyIdle /\ RunIdle

NextReport ==
    \/ RunCreateMissingDataReport /\ UNCHANGED << dvars, evars, cvars, bvars >>
    \/ RunCreateEnhancedMissingDataReport /\ UNCHANGED << dvars, evars, cvars, bvars >>

SpecReport == InitReport /\ [][NextReport]_vars

InitClassify == DispatchIdle /\ EscIdle /\ RepIdle /\ InitClassifyInputs /\ RunIdle

NextClassify ==
    \/ RunContains /\ UNCHANGED << dvars, evars, rvars, bvars >>
    \/ RunIsTimeoutError /\ UNCHANGED << dvars, evars, rvars, bvars >>

SpecClassify == InitClassify /\ [][NextClassify]_vars

\* CreateMissingDataReport over outcomes of events with free-form names
InitErrorKeys == DispatchIdle /\ EscIdle /\ InitKeys /\ ClassifyIdle /\ RunIdle

NextErrorKeys ==
    RunCreateMissingDataReport /\ UNCHANGED << dvars, evars, cvars, bvars >>

SpecErrorKeys == InitErrorKeys /\ [][NextErrorKeys]_vars

\* processMongoOnly over a list of documents
InitBatches == InitRun /\ EscIdle /\ RepIdle /\ ClassifyIdle

NextBatches ==
    \/ ProcessNextDocument /\ UNCHANGED << evars, rvars, cvars >>
    \/ AppendDocumentResults /\ UNCHANGED << evars, rvars, cvars >>
    \/ ProcessMongoOnlyReturn /\ UNCHANGED << evars, rvars, cvars >>
    \/ Next

SpecBatches == InitBatches /\ [][NextBatches]_vars

\* ------------------------------------------- properties of the dispatcher
\* the retry loop of unit w is over: its outcome is final
LoopEnded(w) == pc[w] \in {"lock", "append", "log", "done"}

\* the units that have started and not yet finished
Running == { w \in Workers : pc[w] \notin {"idle", "done"} }

\* the probes in flight
Probing == { w \in Workers : pc[w] = "probing" }

\* the error the k-th probe call of unit w returned (Nil if none)
ProbeErr(w, k) == probeLog[w][k].ret[1].err

Returned(w, k) == k \in 1..Len(probeLog[w]) /\ probeLog[w][k].ret # << >>

\* timeout/deadline class of the retry policy, by the reference substring test
IsTimeoutClass(msg) ==
    \/ StringsContains(msg, S_deadline_exceeded)
    \/ StringsContains(msg, S_timed_out)
    \/ StringsContains(msg, S_timeout)

TransientFailure(w, k) ==
    Returned(w, k) /\ ProbeErr(w, k) # Nil /\ IsTimeoutClass(ErrorMsg(ProbeErr(w, k)))

PermanentFailure(w, k) ==
    Returned(w, k) /\ ProbeErr(w, k) # Nil /\ ~IsTimeoutClass(ErrorMsg(ProbeErr(w, k)))

\* every permitted attempt of unit w was made and failed transiently
Exhausted(w) ==
    /\ LoopEnded(w)
    /\ Len(probeLog[w]) = AttemptLimit
    /\ \A k \in 1..AttemptLimit : TransientFailure(w, k)

\* C1: when ProcessEventsInDocument returns, the result list holds exactly
\* one result per input event: none missing, none twice.
C1_OneResultPerEvent ==
    mainpc = "returned" =>
        /\ Len(results) = Len(events)
        /\ \A w \in Workers :
              Cardinality({ k \in 1..Len(results) : results[k].Event = events[w] }) = 1

\* a returned batch of two events, one outcome an error and one found
C1_Witness ==
    /\ mainpc = "returned"
    /\ maxConcurrent >= 1
    /\ Len(events) >= 2
    /\ \E j, k \in 1..Len(results) : results[j].Error # Nil /\ results[k].FoundInDest

\* C2: the units of work started and not finished, and so the probes in
\* flight, never exceed maxConcurrent.
C2_ConcurrencyBound ==
    /\ Cardinality(Running) <= maxConcurrent
    /\ Cardinality(Probing) <= maxConcurrent

\* the pool is full of probing units while an event still waits for a slot
C2_Witness ==
    /\ maxConcurrent >= 1
    /\ Cardinality(Probing) = maxConcurrent
    /\ next <= Len(events)

\* C3: a permanent (not timeout-class) failure of attempt 1 ends the retry
\* loop at once: one probe call, no backoff sleep, the outcome carries the
\* error.
C3_PermanentErrorStopsAtOnce ==
    \A w \in Workers :
        PermanentFailure(w, 1) =>
            /\ Len(probeLog[w]) = 1
            /\ sleeps[w] = << >>
            /\ LoopEnded(w)
            /\ result[w].Error = ProbeErr(w, 1)

\* C4: no event is probed more than AttemptLimit = 2 times.
C4_AtMostTwoAttempts ==
    \A w \in Workers : Len(probeLog[w]) <= 2

\* a unit that is done after two transient failures
C4_Witness ==
    \E w \in Workers : pc[w] = "done" /\ Exhausted(w)

EscReturned == combined # << >>

\* the primary outcome passed in has no error and found the event
PrimarySucceeded == mongoResult.Error = Nil /\ mongoResult.FoundInDest

\* the requirement lookup the call consulted has an entry (a non-empty
\* requirement set) for the event's display name
RequirementPresent ==
    IF escVersion = "csv"
    THEN \E i \in 1..Len(eventMappings) : eventMappings[i].NewEventName = escEvent.EventName
    ELSE \E e \in eventNameMap : e.key = escEvent.EventName /\ e.val # << >>

\* the secondary result attached to the returned CombinedResult, as a set
Attached == { combined[1].MySQLResult[i] : i \in 1..Len(combined[1].MySQLResult) }

\* C6: in every outcome of either store (models.Result and
\* models.MySQLEventResult) found implies no error.
C6_FoundExcludesError ==
    /\ mongoResult.FoundInDest => mongoResult.Error = Nil
    /\ EscReturned =>
          /\ combined[1].MongoResult.FoundInDest => combined[1].MongoResult.Error = Nil
          /\ \A m \in Attached : m.Found => m.Error = Nil

\* a call that returned a secondary result with Found set
C6_Witness ==
    /\ EscReturned
    /\ combined[1].MongoResult.FoundInDest
    /\ \E m \in Attached : m.Found

\* C7: when the primary outcome has an error or is not found,
\* ValidateAndCheckEvents issues no query against the secondary store.
C7_NoSecondaryQueryUnlessPrimaryFound ==
    (EscReturned /\ ~PrimarySucceeded) => queries = << >>

\* C8: an event found in the primary store whose display name has no
\* requirement (no entry, or an empty set) causes no secondary query.
C8_NoRequirementNoQuery ==
    (EscReturned /\ PrimarySucceeded /\ ~RequirementPresent) => queries = << >>

\* a found event whose name is not among the names of a non-empty table
C8_Witness ==
    /\ EscReturned
    /\ PrimarySucceeded
    /\ ~RequirementPresent
    /\ escVersion = "csv"
    /\ eventMappings # << >>

\* C9 as stated: a secondary outcome is attached exactly when the primary
\* check succeeded and the event name is in the requirement table.
C9_SecondaryAttachedOnlyWhenRequired ==
    EscReturned => (Attached # {} <=> (PrimarySucceeded /\ RequirementPresent))

\* C9 amended: the CSV-based ValidateAndCheckEvents always attaches a
\* MySQLResult; it stems from a query (and can have Found set) only if the
\* primary check succeeded and the name is mapped, and is otherwise a
\* placeholder with Found false, carrying a "no mapping found" error when the
\* primary check succeeded but the name is unmapped and no error when the
\* primary check failed.  The map-based version attaches a MySQLResult
\* exactly when the name has a non-empty requirement set.
C9_SecondaryIsPlaceholderUnlessRequired ==
    EscReturned =>
        IF escVersion = "csv"
        THEN /\ Attached # {}
             /\ \A m \in Attached :
                   /\ (queries # << >> \/ m.Found) => (PrimarySucceeded /\ RequirementPresent)
                   /\ ~PrimarySucceeded =>
                         (~m.Found /\ m.Error = Nil /\ m.MySQLEvent = << >>)
                   /\ (PrimarySucceeded /\ ~RequirementPresent) =>
                         /\ ~m.Found
                         /\ m.Error = Err(S_no_mapping_found_for_event \o escEvent.EventName)
        ELSE Attached # {} <=> RequirementPresent

\* a placeholder attached although the primary check did not find the event
C9_Witness ==
    /\ EscReturned
    /\ escVersion = "csv"
    /\ ~PrimarySucceeded
    /\ RequirementPresent
    /\ Attached # {}

\* ------------------------------------------- properties of the aggregators
\* the aggregator has run
Reported == report # << >>

\* the primary result of the i-th outcome
PrimaryOf(i) == IF repMode = "mongo" THEN outcomes[i] ELSE outcomes[i].MongoResult

\* the outcomes whose primary result has an error
Errored == { i \in 1..Len(outcomes) : PrimaryOf(i).Error # Nil }

\* the elements of a list
Elems(seq) == { seq[k] : k \in 1..Len(seq) }

\* the batch tags found in the missing-in-primary and missing-in-secondary
\* lists (outcome i carries tag i)
MissingTags ==
    IF repMode = "mongo"
    THEN { e.OffsetID : e \in UNION { Elems(report[1].ByCollection[c]) : c \in CollectionNames } }
    ELSE { e.OffsetID : e \in Elems(report[1].mongoReport.Events)
                               \cup Elems(report[1].mysqlReport.Events) }

\* the i-th outcome's primary error is in the error report
InErrorReport(i) ==
    IF repMode = "mongo"
    THEN ErrMsgOf(PrimaryOf(i)) \in Elems(report[1].Errors)
    ELSE \E e \in Elems(report[1].errorReport.Errors) :
            /\ e.ID = PrimaryOf(i).EventID
            /\ e.ErrorType = "mongo"
            /\ e.ErrorMsg = ErrorMsg(PrimaryOf(i).Error)

\* the sum of the missing counters of the report
MissingCounted ==
    IF repMode = "mongo"
    THEN report[1].TotalCount
    ELSE report[1].summaryReport.MongoMissingCount + report[1].summaryReport.MySQLMissingCount

\* C10: in both aggregators an outcome whose primary result has an error is
\* placed in the error report, is in no missing list and in no missing count.
C10_ErroredNeverMissing ==
    Reported =>
        /\ \A i \in Errored : InErrorReport(i) /\ i \notin MissingTags
        /\ MissingCounted <= Len(outcomes) - Cardinality(Errored)
        /\ repMode = "mysql" =>
              /\ report[1].mongoReport.TotalCount <= Len(outcomes) - Cardinality(Errored)
              /\ report[1].mysqlReport.TotalCount <= Len(outcomes) - Cardinality(Errored)

\* a report over an errored outcome and an outcome missing in the primary store
C10_Witness ==
    /\ Reported
    /\ Errored # {}
    /\ MissingTags # {}

\* the primary results of the outcomes, in order
PrimarySeq == [i \in 1..Len(outcomes) |-> PrimaryOf(i)]

\* primary result r says: not found, and no error
IsMissingInPrimary(r) == r.Error = Nil /\ ~r.FoundInDest

\* the entry a missing-in-primary report holds for primary result r
ExpectedMissingEntry(r) ==
    [ID |-> r.Event.ID, EntityType |-> r.Event.EntityType,
     EventName |-> r.Event.EventName, SessionID |-> r.Event.SessionID,
     OffsetID |-> r.OffsetID]

\* the entries expected under key k, in the order of the outcomes
ExpectedUnder(k) ==
    LET sel == SelectSeq(PrimarySeq,
                         LAMBDA r : IsMissingInPrimary(r) /\ r.Event.EntityType = k)
    IN  [n \in 1..Len(sel) |-> ExpectedMissingEntry(sel[n])]

\* the entries the missing-in-primary report of the first run holds under key
\* k: the ByCollection group, or the entries of the flat list that carry k
ReportedUnder(k) ==
    IF repMode = "mongo"
    THEN report[1].ByCollection[k]
    ELSE SelectSeq(report[1].mongoReport.Events, LAMBDA e : e.EntityType = k)

\* the total count of the missing-in-primary report of the first run
MissingInPrimaryTotal ==
    IF repMode = "mongo" THEN report[1].TotalCount ELSE report[1].mongoReport.TotalCount

SecondaryOf(i) == outcomes[i].MySQLResult

\* the i-th outcome has a secondary result that says: not found
SecondaryNotFound(i) == SecondaryOf(i) # << >> /\ ~SecondaryOf(i)[1].Found

\* the secondary result of the i-th outcome has an error
SecondaryErrored(i) == SecondaryOf(i) # << >> /\ SecondaryOf(i)[1].Error # Nil

\* ... and the error is the "requirement not applicable" one
SecondaryNotApplicable(i) ==
    /\ SecondaryErrored(i)
    /\ StringsContains(ErrorMsg(SecondaryOf(i)[1].Error), S_no_mapping_found)

\* the primary check of the i-th outcome succeeded
PrimaryOk(i) == PrimaryOf(i).Error = Nil /\ PrimaryOf(i).FoundInDest

\* the batch tags in the missing-in-secondary list (outcome i carries tag i)
SecondaryMissingTags == { e.OffsetID : e \in Elems(report[1].mysqlReport.Events) }

\* the secondary error of the i-th outcome is in the error report
InErrorReportAsSecondary(i) ==
    \E e \in Elems(report[1].errorReport.Errors) :
        /\ e.ID = SecondaryOf(i)[1].EventID
        /\ e.ErrorType = "mysql"
        /\ e.ErrorMsg = ErrorMsg(SecondaryOf(i)[1].Error)

\* C12 as stated: every combined outcome whose secondary result is not found,
\* with no error or an error other than "no mapping found", is in the
\* missing-in-secondary report.
C12_SecondaryNotFoundIsMissing ==
    (Reported /\ repMode = "mysql") =>
        \A i \in 1..Len(outcomes) :
            (SecondaryNotFound(i) /\ ~SecondaryNotApplicable(i))
                => i \in SecondaryMissingTags

\* C12 amended: the missing-in-secondary report holds exactly the outcomes
\* whose primary check succeeded and whose secondary result is not found with
\* no error; a secondary error other than "no mapping found" puts the
\* outcome in the error report instead, "no mapping found" puts it nowhere.
C12_SecondaryMissingNeedsPrimaryOkNoError ==
    (Reported /\ repMode = "mysql") =>
        /\ \A i \in 1..Len(outcomes) :
              /\ i \in SecondaryMissingTags
                    <=> (PrimaryOk(i) /\ SecondaryNotFound(i) /\ ~SecondaryErrored(i))
              /\ (PrimaryOk(i) /\ SecondaryErrored(i) /\ ~SecondaryNotApplicable(i))
                    => InErrorReportAsSecondary(i)
        /\ report[1].mysqlReport.TotalCount = Cardinality(SecondaryMissingTags)
        /\ report[1].summaryReport.MySQLMissingCount = Cardinality(SecondaryMissingTags)

\* a report over an outcome missing in the secondary store and an outcome
\* whose secondary query failed
C12_Witness ==
    /\ Reported
    /\ repMode = "mysql"
    /\ \E i, j \in 1..Len(outcomes) :
          /\ PrimaryOk(i) /\ SecondaryNotFound(i) /\ ~SecondaryErrored(i)
          /\ PrimaryOk(j) /\ SecondaryErrored(j) /\ ~SecondaryNotApplicable(j)

\* the error text the i-th outcome carries in its primary result
PrimaryErrorText(i) == ErrorMsg(PrimaryOf(i).Error)

\* the line the error list of CreateMissingDataReport holds for result r
ExpectedErrorLine(r) ==
    <<"E", "r", "r", "o", "r", " ", "c", "h", "e", "c", "k", "i", "n", "g", " ">>
        \o r.Event.ID \o <<" ", "i", "n", " ">> \o r.Event.EntityType
        \o <<":", " ">> \o ErrorMsg(r.Error)

\* the error list of the first run
ErrorList ==
    IF repMode = "mongo" THEN report[1].Errors ELSE report[1].errorReport.Errors

\* the positions of the error list that report error text msg
EntriesFor(msg) ==
    IF repMode = "mongo"
    THEN { k \in 1..Len(ErrorList) :
             \E i \in Errored : PrimaryErrorText(i) = msg
                                /\ ErrorList[k] = ExpectedErrorLine(PrimaryOf(i)) }
    ELSE { k \in 1..Len(ErrorList) : ErrorList[k].ErrorMsg = msg }

\* the outcomes with an error the aggregator reports: a primary error, or,
\* the primary check having succeeded, a secondary error other than
\* "no mapping found"
ErroredOutcomes ==
    Errored \cup (IF repMode = "mongo" THEN {}
                  ELSE { i \in 1..Len(outcomes) :
                           PrimaryOk(i) /\ SecondaryErrored(i)
                                        /\ ~SecondaryNotApplicable(i) })

\* C13 as stated: when two outcomes of different events carry the same error
\* text, the error list holds exactly one entry for that text.
C13_SameTextOneEntry ==
    Reported =>
        \A i, j \in Errored :
            (PrimaryOf(i).Event.ID # PrimaryOf(j).Event.ID
                /\ PrimaryErrorText(i) = PrimaryErrorText(j))
              => Cardinality(EntriesFor(PrimaryErrorText(i))) = 1

\* C13 amended: CreateMissingDataReport holds exactly one entry per distinct
\* formatted line "Error checking <id> in <collection>: <error>", so outcomes
\* collapse only when identifier, collection and error text all agree;
\* CreateEnhancedMissingDataReport holds one entry per errored outcome.
C13_OneEntryPerFormattedLine ==
    Reported =>
        IF repMode = "mongo"
        THEN /\ Elems(ErrorList) = { ExpectedErrorLine(PrimaryOf(i)) : i \in Errored }
             /\ Len(ErrorList) = Cardinality(Elems(ErrorList))
        ELSE Len(ErrorList) = Cardinality(ErroredOutcomes)

\* a report over two outcomes of one event (listed in two batches) that carry
\* the same error: one entry
C13_Witness ==
    /\ Reported
    /\ repMode = "mongo"
    /\ \E i, j \in Errored :
          /\ i # j
          /\ ExpectedErrorLine(PrimaryOf(i)) = ExpectedErrorLine(PrimaryOf(j))
          /\ Len(ErrorList) = 1

\* the error count the aggregator gives: the summary counter, or for
\* CreateMissingDataReport the count it prints (its report has no counter)
ErrorCountGiven ==
    IF repMode = "mongo" THEN report[1].printedErrors
                         ELSE report[1].summaryReport.ErrorCount

\* C14 as stated: the error count is the number of errored outcomes, counted
\* before deduplication: n outcomes with one error text give count n and a
\* list of one entry.
C14_CountBeforeDedup ==
    Reported =>
        /\ ErrorCountGiven = Cardinality(ErroredOutcomes)
        /\ (Cardinality(Errored) >= 2 /\ ErroredOutcomes = Errored
                /\ \A i, j \in Errored : PrimaryErrorText(i) = PrimaryErrorText(j))
              => Len(ErrorList) = 1

\* C14 amended: CreateEnhancedMissingDataReport counts every errored outcome
\* and lists every one of them (count = list length = number of errored
\* outcomes); the count of CreateMissingDataReport is the length of its
\* deduplicated list, never more than the number of errored outcomes.
C14_CountIsListLength ==
    Reported =>
        /\ ErrorCountGiven = Len(ErrorList)
        /\ IF repMode = "mongo"
           THEN /\ ErrorCountGiven = Cardinality({ ExpectedErrorLine(PrimaryOf(i)) : i \in Errored })
                /\ ErrorCountGiven <= Cardinality(ErroredOutcomes)
           ELSE /\ ErrorCountGiven = Cardinality(ErroredOutcomes)
                /\ report[1].errorReport.TotalCount = Cardinality(ErroredOutcomes)

\* an enhanced report over two outcomes that carry the same error text:
\* count two, two entries
C14_Witness ==
    /\ Reported
    /\ repMode = "mysql"
    /\ \E i, j \in Errored : i # j /\ PrimaryErrorText(i) = PrimaryErrorText(j)
    /\ ErrorCountGiven = 2
    /\ Len(ErrorList) = 2

\* the outcomes missing in the primary store
MissingInPrimary == { i \in 1..Len(outcomes) : IsMissingInPrimary(PrimaryOf(i)) }

\* the outcomes missing in the secondary store
MissingInSecondary ==
    IF repMode = "mongo" THEN {}
    ELSE { i \in 1..Len(outcomes) :
             PrimaryOk(i) /\ SecondaryNotFound(i) /\ ~SecondaryErrored(i) }

\* the outcome set has a missing event or an error
HasFailure == MissingInPrimary # {} \/ MissingInSecondary # {} \/ ErroredOutcomes # {}

C16_SecondRunSameReport ==
    Len(report) = 2 => report[1] = report[2]

\* ------------------------------- further properties of the dispatcher
\* unit w made a probe call that returned
ProbeCompleted(w) == \E k \in 1..Len(probeLog[w]) : probeLog[w][k].ret # << >>

\* C17: ProcessEventsInDocument returns only after every unit of work has
\* finished: at return (and ever after) no unit is probing, sleeping or about
\* to append, every slot and the mutex are released, and every event that
\* needs a probe had its probe run to completion whatever its siblings got.
C17_ReturnOnlyAfterAllFinished ==
    mainpc = "returned" =>
        /\ \A w \in Workers :
              /\ pc[w] = "done"
              /\ \A k \in 1..Len(probeLog[w]) : probeLog[w][k].ret # << >>
              /\ NeedsProbe(events[w]) => ProbeCompleted(w)
        /\ Len(results) = Len(events)
        /\ semaphore = 0
        /\ wg = 0
        /\ resultsMutex = 0

\* returned from a batch in which one event failed permanently at its first
\* probe and a sibling's probe completed with the event found
C17_Witness ==
    /\ mainpc = "returned"
    /\ \E v, w \in Workers :
          /\ v # w
          /\ Len(probeLog[v]) = 1
          /\ PermanentFailure(v, 1)
          /\ sleeps[v] = << >>
          /\ ProbeCompleted(w)
          /\ result[w].Error = Nil
          /\ result[w].FoundInDest

\* C19: for an event with an empty entity type the field validation runs
\* once: the outcome is the invalid-input error, no probe call is made, there
\* is no second attempt and no backoff sleep.
C19_EmptyEntityTypeValidatedOnce ==
    \A w \in Workers :
        (LoopEnded(w) /\ events[w].EntityType = << >>) =>
            /\ result[w].Error = Err(S_empty_entity_type)
            /\ probeLog[w] = << >>
            /\ attempt[w] = 1
            /\ sleeps[w] = << >>

\* the largest number of steps unit w can still take
Rank(w) ==
    CASE pc[w] = "idle"    -> 3 * AttemptLimit + 4
      [] pc[w] = "attempt" -> 3 * (AttemptLimit - attempt[w] + 1) + 3
      [] pc[w] = "probing" -> 3 * (AttemptLimit - attempt[w] + 1) + 2
      [] pc[w] = "sleep"   -> 3 * (AttemptLimit - attempt[w] + 1) + 1
      [] pc[w] = "lock"    -> 3
      [] pc[w] = "append"  -> 2
      [] pc[w] = "log"     -> 1
      [] pc[w] = "done"    -> 0

RECURSIVE SumRank(_)
SumRank(n) == IF n = 0 THEN 0 ELSE Rank(n) + SumRank(n - 1)

\* the largest number of steps the call can still take
StepsLeft == SumRank(Len(events)) + (IF mainpc = "dispatch" THEN 1 ELSE 0)

\* C18: for every batch and every maxConcurrent >= 1, under fair scheduling
\* and with every probe call returning, ProcessEventsInDocument eventually
\* returns, whatever errors the events meet: until it has returned some step
\* of the dispatcher or of a unit can be taken (a runnable goroutine runs,
\* a probe returns, a sleep ends), and every step brings the return nearer.
C18_EventuallyReturns ==
    /\ []((maxConcurrent >= 1 /\ mainpc # "returned") => ENABLED Next)
    /\ [][StepsLeft' < StepsLeft]_vars

\* returned from a batch in which one event failed validation and another
\* exhausted its attempts on transient errors
C18_Witness ==
    /\ mainpc = "returned"
    /\ maxConcurrent >= 1
    /\ \E v, w \in Workers :
          /\ ~NeedsProbe(events[v])
          /\ result[v].Error # Nil
          /\ Exhausted(w)

\* C20: for an event with an empty identifier and a non-empty entity type the
\* validator short-circuits: the outcome is an invalid-input error and no
\* probe call is made against the store.
C20_EmptyIDShortCircuits ==
    \A w \in Workers :
        (events[w].ID = << >> /\ events[w].EntityType # << >>) =>
            /\ probeLog[w] = << >>
            /\ LoopEnded(w) => result[w].Error # Nil

\* C21: attempt k of the retry loop gets a deadline of exactly k times the
\* base timeout, counted afresh from that attempt's own start (the context's
\* parent carries no deadline), whatever attempt 1 and the backoff consumed.
C21_DeadlineLinearAndFresh ==
    \A w \in Workers :
        \A k \in 1..Len(probeLog[w]) :
            /\ probeLog[w][k].timeout = k * QueryTimeout
            /\ probeLog[w][k].parent = "Background"

\* a second probe issued after a transient failure and a backoff sleep
C21_Witness ==
    \E w \in Workers :
        /\ Len(probeLog[w]) = 2
        /\ TransientFailure(w, 1)
        /\ sleeps[w] = << 1 >>
        /\ probeLog[w][2].timeout = 30

\* C22: backoff sleeps happen between attempts only: the k-th sleep lasts k
\* seconds and is followed by another attempt, so an event that was probed
\* has taken fewer sleeps than probes when its outcome is published, and no
\* sleep follows the last permitted attempt.
C22_SleepOnlyBetweenAttempts ==
    \A w \in Workers :
        /\ \A k \in 1..Len(sleeps[w]) : sleeps[w][k] = k
        /\ (LoopEnded(w) /\ NeedsProbe(events[w])) => Len(sleeps[w]) < Len(probeLog[w])

\* the ways the retry loop of unit w can have ended
FirstAttemptSuccess(w) ==
    Len(probeLog[w]) = 1 /\ Returned(w, 1) /\ ProbeErr(w, 1) = Nil

RetriedAttempt(w) == Len(probeLog[w]) = 2 /\ Returned(w, 2)

ValidationShortCircuit(w) == ~NeedsProbe(events[w]) /\ LoopEnded(w)

\* C23: every result ProcessEventsInDocument returns for batch tag t has
\* OffsetID = t, whichever path produced it (first-attempt success, retried
\* attempt, validation short-circuit, permanent error); so has every result
\* in the shared list and every outcome whose retry loop has ended.
C23_ResultsCarryBatchTag ==
    /\ \A k \in 1..Len(results) : results[k].OffsetID = documentIndex
    /\ \A w \in Workers : LoopEnded(w) => result[w].OffsetID = documentIndex
    /\ mainpc = "returned" => Len(results) = Len(events)

\* returned with tag 2 from a batch with a first-attempt success or a
\* validation short-circuit and a retried attempt
C23_Witness ==
    /\ mainpc = "returned"
    /\ documentIndex = 2
    /\ \E v, w \in Workers :
          /\ FirstAttemptSuccess(v) \/ ValidationShortCircuit(v)
          /\ RetriedAttempt(w)

\* the return of the last probe call of unit w
LastProbe(w) == probeLog[w][Len(probeLog[w])].ret[1]

\* C29: the retry loop yields one terminal outcome per event, the result of
\* the last attempt executed: its error is the one the last probe returned
\* (none when that probe succeeded, whatever earlier attempts returned) and
\* its found flag is the one the last probe reported; exactly that outcome
\* is published, once.
C29_OutcomeIsLastAttempt ==
    \A w \in Workers :
        /\ (LoopEnded(w) /\ NeedsProbe(events[w])) =>
              /\ result[w].Error = LastProbe(w).err
              /\ result[w].FoundInDest = (LastProbe(w).err = Nil /\ LastProbe(w).count > 0)
              /\ result[w].EventID = events[w].ID
        /\ pc[w] \in {"log", "done"} =>
              Cardinality({ k \in 1..Len(results) : results[k].Event = events[w] }) = 1
        /\ \A k \in 1..Len(results) : results[k].Event = events[w] => results[k] = result[w]

\* attempt 1 failed transiently, attempt 2 found the event, and the outcome
\* published has no error and found set
C29_Witness ==
    \E w \in Workers :
        /\ pc[w] = "done"
        /\ Len(probeLog[w]) = 2
        /\ TransientFailure(w, 1)
        /\ LastProbe(w).err = Nil
        /\ LastProbe(w).count > 0
        /\ \E k \in 1..Len(results) :
              /\ results[k].Event = events[w]
              /\ results[k].Error = Nil
              /\ results[k].FoundInDest

\* --------------------------- further properties of the escalation
\* the call met a lookup miss: no mapping for the event's name (csv version),
\* no product type for its collection (maps version)
LookupMiss ==
    IF escVersion = "csv"
    THEN PrimarySucceeded /\ ~RequirementPresent
    ELSE RequirementPresent /\ \A e \in collectionMap : e.key # escEvent.EntityType

\* the secondary result carries the error of a lookup miss
SecondaryHasLookupError ==
    \E m \in Attached :
        /\ m.Error # Nil
        /\ \/ StringsContains(ErrorMsg(m.Error), S_no_mapping_found_for_event)
           \/ StringsContains(ErrorMsg(m.Error), S_no_product_type_id_mapping)
        /\ ~m.Found

\* C24: escalation never alters the primary outcome: on every path of
\* ValidateAndCheckEvents the MongoResult returned is the primary outcome
\* passed in, and a lookup miss shows only as an error on the secondary
\* result, with no query issued.
C24_PrimaryOutcomeUntouched ==
    EscReturned =>
        /\ combined[1].MongoResult = mongoResult
        /\ LookupMiss => (SecondaryHasLookupError /\ queries = << >>)

\* a call that met a lookup miss after a successful primary check
C24_Witness ==
    /\ EscReturned
    /\ PrimarySucceeded
    /\ LookupMiss
    /\ SecondaryHasLookupError
    /\ combined[1].MongoResult.Error = Nil

\* C25: the requirement lookup is populated before the run and read-only
\* during it: no call of ValidateAndCheckEvents writes the shared
\* event-mapping table.
C25_MappingTableNeverWritten ==
    [][eventMappings' = eventMappings]_vars

\* ------------------------------------- properties of the error-kind test
\* C26: isTimeoutError classifies an error as transient exactly when its
\* message contains "deadline exceeded", "timed out" or "timeout", and
\* contains(s, substr) agrees with the reference substring test for every
\* pair of bounded strings.
C26_ClassifierMatchesSubstringTest ==
    ctOut # << >> =>
        IF ctOut[1].op = "contains"
        THEN ~ctOut[1].panic /\ ctOut[1].val = StringsContains(ctS, ctSub)
        ELSE ctOut[1].val = IsTimeoutClass(ctS)

\* ------------------------------- further properties of the dispatcher (2)
\* C27: for an empty batch ProcessEventsInDocument returns an empty result
\* list without acquiring a semaphore slot, starting a unit of work or
\* issuing a probe: nothing but the return can happen.
C27_EmptyBatchReturnsEmpty ==
    events = << >> =>
        /\ semaphore = 0
        /\ wg = 0
        /\ next = 1
        /\ pc = << >>
        /\ probeLog = << >>
        /\ results = << >>
        /\ mainpc = "dispatch" => ENABLED Return

\* returned from an empty batch
C27_Witness ==
    /\ events = << >>
    /\ mainpc = "returned"
    /\ results = << >>

\* the units inside the critical section of the results mutex
InCriticalSection == { w \in Workers : pc[w] = "append" }

\* C28: every append to the shared result list happens while the appending
\* unit holds the results mutex; at most one unit is inside the critical
\* section at any time; and the section holds the append alone: the holder
\* neither probes, sleeps nor logs, its one step appends and unlocks.
C28_AppendUnderMutexOnly ==
    /\ [](/\ Cardinality(InCriticalSection) <= 1
          /\ \A w \in Workers : pc[w] = "append" <=> resultsMutex = w
          /\ resultsMutex = 0 <=> InCriticalSection = {})
    /\ [][/\ results' # results =>
               /\ resultsMutex # 0
               /\ pc[resultsMutex] = "append"
               /\ results' = Append(results, result[resultsMutex])
               /\ resultsMutex' = 0
          /\ (resultsMutex # 0 /\ pc' # pc) =>
               /\ pc'[resultsMutex] = "log"
               /\ results' # results
               /\ \A w \in Workers : w # resultsMutex => pc'[w] = pc[w]
           \/ \E w \in Workers : w # resultsMutex /\ pc'[w] # pc[w]
                                   /\ pc'[resultsMutex] = pc[resultsMutex]
                                   /\ results' = results]_vars

\* one unit holds the mutex while another waits for it
C28_Witness ==
    \E v, w \in Workers :
        /\ pc[v] = "append"
        /\ resultsMutex = v
        /\ pc[w] = "lock"

\* --------------------------- further properties of the escalation (2)
\* the secondary result attached by the last call carries a query failure
\* of the timeout class
SecondaryTimedOut ==
    \E m \in Attached :
        /\ m.Error # Nil
        /\ \/ StringsContains(ErrorMsg(m.Error), S_MySQL_query_failed)
           \/ StringsContains(ErrorMsg(m.Error), S_error_querying_MySQL)
        /\ StringsContains(ErrorMsg(m.Error), S_timed_out)

\* C30: a timeout-class error of the secondary-store check is retried under
\* the bounded policy of the primary check: a timeout error is attached to
\* the CombinedResult only after the query was issued AttemptLimit times.
C30_SecondaryTimeoutRetried ==
    (EscReturned /\ SecondaryTimedOut) => Len(queries) >= AttemptLimit

\* ------------------------------- further properties of the dispatcher (3)
\* unit w has not appended its result yet
NotAppended(w) == pc[w] \notin {"log", "done"}

\* C31: the order of the results is not fixed by the input order: a unit
\* that has its outcome never waits for the unit of an earlier event, it can
\* take the free results mutex and append while the earlier unit has not
\* appended; the result list is in the order of the appends.
C31_LaterUnitNeverWaitsForEarlier ==
    /\ [](\A v, w \in Workers :
            (v < w /\ NotAppended(v) /\ pc[w] = "lock" /\ resultsMutex = 0) =>
                ENABLED Lock(w))
    /\ [][\A w \in Workers :
            (pc[w] = "append" /\ pc'[w] = "log") =>
                results' = results \o << result[w] >>]_vars

\* returned with the result of the second event ahead of the first one's
C31_Witness ==
    /\ mainpc = "returned"
    /\ maxConcurrent >= 2
    /\ Len(events) >= 2
    /\ \E j, k \in 1..Len(results) :
          /\ j < k
          /\ results[j].Event = events[2]
          /\ results[k].Event = events[1]

\* the units that hold a semaphore slot: acquired for at validator.go:29 and
\* not yet through the deferred release at validator.go:33
HoldingSlot == { w \in Workers : pc[w] \notin {"idle", "done"} }

\* C33: semaphore slots are conserved: the tokens in the semaphore are
\* exactly the units acquired for and not yet finished (so a slot stays held
\* across the probe, the backoff sleep and the append), a token is added only
\* by the dispatch of one unit and removed only by the finish of one unit,
\* whatever its outcome, and on return no slot is held.
C33_SlotsConserved ==
    /\ [](/\ semaphore = Cardinality(HoldingSlot)
          /\ \A w \in Workers : pc[w] \in {"sleep", "lock", "append"} => semaphore >= 1
          /\ mainpc = "returned" => semaphore = 0)
    /\ [][/\ semaphore' > semaphore =>
               /\ semaphore' = semaphore + 1
               /\ next' = next + 1
               /\ pc[next] = "idle" /\ pc'[next] = "attempt"
          /\ semaphore' < semaphore =>
               /\ semaphore' = semaphore - 1
               /\ \E w \in Workers :
                     /\ pc[w] = "log" /\ pc'[w] = "done"
                     /\ \A v \in Workers : v # w => pc'[v] = pc[v]
          /\ \A w \in Workers : (pc[w] # "done" /\ pc'[w] = "done") =>
                                   semaphore' = semaphore - 1]_vars

\* returned after an errored unit that slept and a found one, all slots free
C33_Witness ==
    /\ mainpc = "returned"
    /\ semaphore = 0
    /\ \E v, w \in Workers :
          /\ sleeps[v] # << >>
          /\ result[v].Error # Nil
          /\ result[w].Error = Nil
          /\ result[w].FoundInDest

\* C34: with maxConcurrent = 0 and a non-empty batch the call blocks forever
\* on the first semaphore acquisition: no unit of work starts, no probe is
\* issued, nothing can happen and the call never returns.
C34_ZeroCapacityBlocks ==
    (maxConcurrent = 0 /\ events # << >>) =>
        /\ mainpc = "dispatch"
        /\ next = 1
        /\ semaphore = 0
        /\ \A w \in Workers : pc[w] = "idle" /\ probeLog[w] = << >>
        /\ results = << >>
        /\ ~ENABLED Next

\* the blocked call
C34_Witness ==
    /\ maxConcurrent = 0
    /\ Len(events) >= 1
    /\ mainpc = "dispatch"
    /\ ~ENABLED Dispatch
    /\ ~ENABLED Return

\* C35: with maxConcurrent = 1 the results are returned in input order: the
\* only slot is taken by the dispatch loop before a unit starts and given
\* back after the unit's append, so the result of event i is appended before
\* event i+1 is started, and the k-th result is the k-th event's.
C35_SerialKeepsInputOrder ==
    maxConcurrent = 1 =>
        /\ \A k \in 1..Len(results) : results[k].Event = events[k]
        /\ \A w \in Workers :
              (w > 1 /\ pc[w] # "idle") => (pc[w - 1] = "done" /\ Len(results) >= w - 1)
        /\ \A w \in Workers : probeLog[w] # << >> => Len(results) >= w - 1

\* a serial run of two probed events has returned
C35_Witness ==
    /\ maxConcurrent = 1
    /\ mainpc = "returned"
    /\ Len(events) >= 2
    /\ Len(results) = Len(events)
    /\ \A w \in Workers : probeLog[w] # << >>

\* ------------------------------------------- properties of the batch loop
\* the results in allResults that carry batch tag d
ResultsOfBatch(d) == { k \in 1..Len(allResults) : allResults[k].OffsetID = d }

\* C36: batches are processed strictly one after another: a unit of work
\* runs only inside the one call in progress, the call for the next batch is
\* made only when every unit of the current one has finished and its results
\* are collected, the combined list holds the results of batch i (tagged i,
\* counted from 1) before those of batch i+1, as many as the batch has
\* events, and at return its length is the sum of the batch sizes.
C36_BatchesStrictlySequential ==
    /\ []((runpc # "idle") =>
            /\ \A w \in Workers :
                  pc[w] \notin {"idle", "done"} => (runpc = "call" /\ documentIndex = docIndex)
            /\ \A j, k \in 1..Len(allResults) :
                  j < k => allResults[j].OffsetID <= allResults[k].OffsetID
            /\ \A k \in 1..Len(allResults) : allResults[k].OffsetID \in 1..docIndex
            /\ \A d \in 1..Len(eventRecoveries) :
                  Cardinality(ResultsOfBatch(d)) =
                     IF d < docIndex \/ (d = docIndex /\ runpc # "call")
                     THEN Len(eventRecoveries[d]) ELSE 0
            /\ runpc = "returned" => Len(allResults) = TotalEvents(eventRecoveries))
    /\ [][(runpc # "idle" /\ documentIndex' # documentIndex) =>
              /\ runpc = "loop"
              /\ \A w \in Workers : pc[w] = "done"
              /\ Len(allResults) = TotalEvents(SubSeq(eventRecoveries, 1, docIndex))
              /\ documentIndex' = docIndex + 1
              /\ \A w \in DOMAIN pc' : pc'[w] = "idle" /\ probeLog'[w] = << >>]_vars

\* returned from a run over a batch of two events followed by a non-empty
\* batch, two units at a time
C36_Witness ==
    /\ runpc = "returned"
    /\ maxConcurrent = 2
    /\ Len(eventRecoveries) >= 2
    /\ Len(eventRecoveries[1]) = 2
    /\ Len(eventRecoveries[2]) >= 1
    /\ Len(allResults) = 3
    /\ allResults[1].Event = eventRecoveries[1][2]

\* ------------------------------- further properties of the aggregators (2)
\* the batch tags of the entries of a missing list (outcome i carries tag i)
TagsIn(list) == { e.OffsetID : e \in Elems(list) }

\* C32: in CreateEnhancedMissingDataReport every outcome contributes to at
\* most one of the three lists: each list holds an outcome at most once, no
\* outcome is in both missing lists, the outcomes behind the error list are
\* in neither missing list, each counter is the length of its list, so
\* MongoMissingCount + MySQLMissingCount + ErrorCount <= TotalEventsChecked,
\* and TotalEventsChecked is the number of outcomes given.
C32_OutcomeInAtMostOneList ==
    (Reported /\ repMode = "mysql") =>
        LET mongoEvents == report[1].mongoReport.Events
            mysqlEvents == report[1].mysqlReport.Events
            errors == report[1].errorReport.Errors
            summary == report[1].summaryReport
        IN  /\ summary.TotalEventsChecked = Len(outcomes)
            /\ summary.MongoMissingCount + summary.MySQLMissingCount + summary.ErrorCount
                  <= summary.TotalEventsChecked
            /\ summary.MongoMissingCount = Len(mongoEvents)
            /\ summary.MySQLMissingCount = Len(mysqlEvents)
            /\ summary.ErrorCount = Len(errors)
            /\ Cardinality(TagsIn(mongoEvents)) = Len(mongoEvents)
            /\ Cardinality(TagsIn(mysqlEvents)) = Len(mysqlEvents)
            /\ TagsIn(mongoEvents) \cap TagsIn(mysqlEvents) = {}
            /\ Len(errors) = Cardinality(ErroredOutcomes)
            /\ ErroredOutcomes \cap (TagsIn(mongoEvents) \cup TagsIn(mysqlEvents)) = {}
            /\ TagsIn(mongoEvents) \cup TagsIn(mysqlEvents) \subseteq 1..Len(outcomes)

\* a report over two outcomes that fills two different lists
C32_Witness ==
    /\ Reported
    /\ repMode = "mysql"
    /\ Len(outcomes) = 2
    /\ report[1].summaryReport.ErrorCount = 1
    /\ report[1].summaryReport.MySQLMissingCount = 1
    /\ report[1].summaryReport.TotalEventsChecked = 2

\* ----------------------------------- properties of the error-list key
\* (event ID, collection name, error text) of the i-th outcome
TripleOf(i) ==
    << PrimaryOf(i).EventID, PrimaryOf(i).CollectionName, ErrorMsg(PrimaryOf(i).Error) >>

\* the distinct triples among the errored outcomes
ErrorTriples == { TripleOf(i) : i \in Errored }

\* the string has no space in it
NoSpace(str) == \A k \in 1..Len(str) : str[k] # " "

\* identifier and collection name of the i-th outcome are free of spaces
PlainNames(i) == NoSpace(PrimaryOf(i).EventID) /\ NoSpace(PrimaryOf(i).CollectionName)

\* the positions of the error list whose line ends with the error text of
\* outcome i and holds its identifier and its collection name
LinesOf(i) ==
    { k \in 1..Len(report[1].Errors) :
        LET line == report[1].Errors[k]
            tail == S_colon \o ErrorMsg(PrimaryOf(i).Error)
            head == <<"E", "r", "r", "o", "r", " ", "c", "h", "e", "c", "k", "i", "n", "g", " ">>
                        \o PrimaryOf(i).EventID \o <<" ", "i", "n", " ">>
        IN  /\ Len(line) = Len(head) + Len(PrimaryOf(i).CollectionName) + Len(tail)
            /\ SubSeq(line, 1, Len(head)) = head
            /\ SubSeq(line, Len(head) + 1, Len(line) - Len(tail)) = PrimaryOf(i).CollectionName
            /\ SubSeq(line, Len(line) - Len(tail) + 1, Len(line)) = tail }

\* C37 as stated: the error list of CreateMissingDataReport holds exactly one
\* entry per distinct triple (event ID, collection name, error text) among the
\* errored outcomes.
C37_OneEntryPerTriple ==
    (Reported /\ repMode = "mongo") =>
        Len(report[1].Errors) = Cardinality(ErrorTriples)

\* C37 amended: every errored outcome has exactly one line in the error
\* list, built from its identifier, collection name and error text, and the
\* list has at most one entry per distinct triple; outcomes with different
\* triples get different lines, one entry per triple, provided their
\* identifiers and collection names hold no space.
C37_OneEntryPerTripleOfPlainNames ==
    (Reported /\ repMode = "mongo") =>
        /\ \A i \in Errored : Cardinality(LinesOf(i)) = 1
        /\ Len(report[1].Errors) <= Cardinality(ErrorTriples)
        /\ \A i, j \in Errored :
              (PlainNames(i) /\ PlainNames(j) /\ TripleOf(i) # TripleOf(j)) =>
                  LinesOf(i) # LinesOf(j)
        /\ (\A i \in Errored : PlainNames(i)) =>
              Len(report[1].Errors) = Cardinality(ErrorTriples)

\* a report over errors of two events with plain names and the same error
\* text: two entries
C37_Witness ==
    /\ Reported
    /\ repMode = "mongo"
    /\ \E i, j \in Errored :
          /\ PlainNames(i) /\ PlainNames(j)
          /\ PrimaryOf(i).EventID # PrimaryOf(j).EventID
          /\ PrimaryOf(i).CollectionName = PrimaryOf(j).CollectionName
          /\ PrimaryErrorText(i) = PrimaryErrorText(j)
          /\ LinesOf(i) # LinesOf(j)
    /\ Len(report[1].Errors) = 2

====
